---- MODULE Spec2Model ----
(***************************************************************************)
(* SCORM 2004 run-time environment of the LMS backend                      *)
(* (src/app/api/scorm.py over the SCO / LearnerAttempt / Enrollment        *)
(* tables).                                                                *)
(*                                                                         *)
(* Every RTE call is one HTTP request.  A request gets a fresh SQLAlchemy  *)
(* session from get_db (autocommit=False, autoflush=False) which is closed *)
(* when the request ends; whatever the handler changed on an ORM object    *)
(* and did not commit is discarded by that close.  The model therefore     *)
(* keeps two things apart:                                                 *)
(*   attempts  - the committed rows of learner_attempts (what the next     *)
(*               request reads), and                                       *)
(*   obj       - the ORM object the handler held when it returned, with    *)
(*               the handler's in-memory assignments, before the close.    *)
(* Every action is one whole request: handler body plus the session close. *)
(* Only SpecRace, where two server processes serve Initialize at the same  *)
(* time, takes a request in two steps, split at its db.commit().           *)
(* The content player is the client: player is its own record of the calls *)
(* it has made in its session, not state of the backend.                   *)
(***************************************************************************)
EXTENDS Integers, Sequences, FiniteSets, TLC

VARIABLES
    enrollments,   \* committed rows of the enrollments table, id = index
    attempts,      \* committed rows of the learner_attempts table, id = index
    resp,          \* the last request and the response it got
    obj,           \* <<>> or <<o>>: ORM attempt object at the handler's return
    prev,          \* attempts as committed when the last request arrived
    player,        \* the content player's session: what it has called so far
    inflight,      \* per server process: the Initialize request it is inside
    twin           \* SpecPair: the second database a call sequence is replayed on

vars == <<enrollments, attempts, resp, obj, prev, player, inflight, twin>>

----------------------------------------------------------------------------
(* Bounds of the model *)

MaxAttempts == 3        \* rows in learner_attempts
MaxEnrollments == 3     \* rows in enrollments

(* Program constants *)

SuspendDataLimit == 64000

----------------------------------------------------------------------------
(* Static tables and the inputs of the requests *)

Users == {1, 2}                      \* users.id of the authenticated callers
Courses == {1, 2}                    \* courses.id
ScoIds == {1, 2}                     \* scos.id; both SCOs belong to course 1
ScoCourse == [s \in ScoIds |-> 1]    \* scos.course_id
ScoArgs == ScoIds \cup {3}           \* sco_id path parameter; 3 is no SCO
AttemptArgs == 1 .. MaxAttempts      \* attempt_id path parameter; an id above the
                                     \* number of rows is no attempt
LaunchData == [s \in ScoIds |-> IF s = 1 THEN "lesson=1" ELSE ""]
MasteryScore == [s \in ScoIds |-> IF s = 1 THEN <<80>> ELSE <<>>]
LearnerName == [u \in Users |-> IF u = 1 THEN "learner one" ELSE "learner two"]

NoneStr == "<None>"     \* SQL NULL / Python None in a string column
NoneNum == <<>>         \* SQL NULL / Python None in a Float column; <<h>> is
                        \* the float h/100 (floats are kept in hundredths)

(* Strings of x of the lengths around the suspend_data limit *)
X1 == "x"
X2 == X1 \o X1
X4 == X2 \o X2
X8 == X4 \o X4
X16 == X8 \o X8
X32 == X16 \o X16
X64 == X32 \o X32
X128 == X64 \o X64
X256 == X128 \o X128
X512 == X256 \o X256
X1024 == X512 \o X512
X2048 == X1024 \o X1024
X4096 == X2048 \o X2048
X8192 == X4096 \o X4096
X16384 == X8192 \o X8192
X32768 == X16384 \o X16384
AtLimit == X32768 \o X16384 \o X8192 \o X4096 \o X2048 \o X512 \o X64
OverLimit == AtLimit \o X1

(* The characters of the value strings that the handlers parse *)
Chars ==
    [v \in {"", "0.85", "1", "-0.5", "abc", "PT1H30M15S", "PT5M", "PT1.5S",
            "PT", "PT2H", "15S", "PT1H30"} |->
        CASE v = "" -> <<>>
          [] v = "0.85" -> <<"0", ".", "8", "5">>
          [] v = "1" -> <<"1">>
          [] v = "-0.5" -> <<"-", "0", ".", "5">>
          [] v = "abc" -> <<"a", "b", "c">>
          [] v = "PT1H30M15S" -> <<"P", "T", "1", "H", "3", "0", "M", "1", "5", "S">>
          [] v = "PT5M" -> <<"P", "T", "5", "M">>
          [] v = "PT1.5S" -> <<"P", "T", "1", ".", "5", "S">>
          [] v = "PT" -> <<"P", "T">>
          [] v = "PT2H" -> <<"P", "T", "2", "H">>
          [] v = "15S" -> <<"1", "5", "S">>
          [] v = "PT1H30" -> <<"P", "T", "1", "H", "3", "0">>]

(* element/value pairs of the SetValue requests *)
SetInputs ==
    ({"cmi.completion_status"} \X {"completed", "incomplete", "not attempted", "unknown", "passed"})
    \cup ({"cmi.success_status"} \X {"passed", "failed", "unknown", "completed"})
    \cup ({"cmi.score.raw", "cmi.score.min", "cmi.score.max"} \X {"1", "", "abc"})
    \cup ({"cmi.score.scaled"} \X {"0.85", "-0.5", "", "abc"})
    \cup ({"cmi.location"} \X {"page3", ""})
    \cup ({"cmi.suspend_data"} \X {"state=1", "", AtLimit, OverLimit})
    \cup ({"cmi.exit"} \X {"suspend", "bogus"})
    \cup ({"cmi.session_time"} \X {"PT1H30M15S", "PT5M", "PT1.5S", "PT", "PT2H", "15S", "PT1H30"})
    \cup ({"cmi.progress_measure"} \X {"0.85", "", "abc"})
    \cup ({"cmi.interactions.0.id"} \X {"abc"})

(* element names of the GetValue requests *)
GetElements ==
    {"cmi.completion_status", "cmi.success_status", "cmi.score.raw", "cmi.score.min",
     "cmi.score.max", "cmi.score.scaled", "cmi.location", "cmi.suspend_data",
     "cmi.entry", "cmi.exit", "cmi.session_time", "cmi.total_time",
     "cmi.progress_measure", "cmi.learner_id", "cmi.learner_name", "cmi.mode",
     "cmi.credit", "cmi.interactions.0.id"}

----------------------------------------------------------------------------
(* Value codec: Python's int/float parsing and str() rendering *)

Digits == {"0", "1", "2", "3", "4", "5", "6", "7", "8", "9"}

DigitVal(c) ==
    CASE c = "0" -> 0 [] c = "1" -> 1 [] c = "2" -> 2 [] c = "3" -> 3 [] c = "4" -> 4
      [] c = "5" -> 5 [] c = "6" -> 6 [] c = "7" -> 7 [] c = "8" -> 8 [] c = "9" -> 9

DigitStr(d) ==
    CASE d = 0 -> "0" [] d = 1 -> "1" [] d = 2 -> "2" [] d = 3 -> "3" [] d = 4 -> "4"
      [] d = 5 -> "5" [] d = 6 -> "6" [] d = 7 -> "7" [] d = 8 -> "8" [] d = 9 -> "9"

(* str(n) of a non-negative int *)
RECURSIVE IntStr(_)
IntStr(n) == IF n < 10 THEN DigitStr(n) ELSE IntStr(n \div 10) \o DigitStr(n % 10)

(* int(cs) of a run of decimal digits *)
RECURSIVE DigitsVal(_)
DigitsVal(cs) ==
    IF cs = <<>> THEN 0 ELSE 10 * DigitsVal(SubSeq(cs, 1, Len(cs) - 1)) + DigitVal(cs[Len(cs)])

(* end of the longest run of digits of cs that starts at position p (p - 1 if none) *)
RECURSIVE DigitRunEnd(_, _)
DigitRunEnd(cs, p) ==
    IF p <= Len(cs) /\ cs[p] \in Digits THEN DigitRunEnd(cs, p + 1) ELSE p - 1

(* The fraction digits fd (one or two of them) in hundredths *)
FractionHundredths(fd) == IF Len(fd) = 1 THEN 10 * DigitsVal(fd) ELSE DigitsVal(fd)

(* float() of the unsigned literal cs[p..], whose run of integer digits ends *)
(* at ie: <<h>> in hundredths, or <<>> when float() raises ValueError.       *)
(* Literals d+[.d{1,2}] are covered; anything else raises.                   *)
ParseUnsigned(cs, p, ie) ==
    IF ie < p THEN <<>>
    ELSE IF ie = Len(cs) THEN <<100 * DigitsVal(SubSeq(cs, p, ie))>>
    ELSE IF /\ cs[ie + 1] = "."
            /\ Len(cs) - (ie + 1) \in {1, 2}
            /\ DigitRunEnd(cs, ie + 2) = Len(cs)
         THEN <<100 * DigitsVal(SubSeq(cs, p, ie))
                + FractionHundredths(SubSeq(cs, ie + 2, Len(cs)))>>
         ELSE <<>>

(* -x of an optional float *)
Negate(x) == IF x = <<>> THEN <<>> ELSE <<0 - x[1]>>

(* float() of the characters cs *)
ParseSigned(cs) ==
    IF Len(cs) >= 1 /\ cs[1] = "-"
    THEN Negate(ParseUnsigned(cs, 2, DigitRunEnd(cs, 2)))
    ELSE ParseUnsigned(cs, 1, DigitRunEnd(cs, 1))

(* float(value) *)
ParseFloat(value) == ParseSigned(Chars[value])

(* str(x) of the float x = h/100 *)
FloatStr(h) ==
    LET a == IF h < 0 THEN -h ELSE h
        f == a % 100
    IN  (IF h < 0 THEN "-" ELSE "") \o IntStr(a \div 100) \o "."
        \o (IF f % 10 = 0 THEN DigitStr(f \div 10)
            ELSE DigitStr(f \div 10) \o DigitStr(f % 10))

----------------------------------------------------------------------------
(* Duration codec: the regular expression of scorm_set_value                *)
(*   PT(?:(\d+)H)?(?:(\d+)M)?(?:(\d+(?:\.\d+)?)S)?    applied with re.match  *)

(* One optional group (\d+)<unit> tried at position p of cs:                *)
(* [val |-> <<>> or <<n>>, next |-> position after the group]               *)
UnitGroup(cs, p, unit) ==
    LET e == DigitRunEnd(cs, p)
    IN  IF e >= p /\ e < Len(cs) /\ cs[e + 1] = unit
        THEN [val |-> <<DigitsVal(SubSeq(cs, p, e))>>, next |-> e + 2]
        ELSE [val |-> <<>>, next |-> p]

(* The optional group (\d+(?:\.\d+)?)S; val is the whole part of the float, *)
(* which is what int() keeps of a non-negative sum                          *)
SecondsGroup(cs, p) ==
    LET e == DigitRunEnd(cs, p)
        hasFrac == e >= p /\ e < Len(cs) /\ cs[e + 1] = "." /\ DigitRunEnd(cs, e + 2) >= e + 2
        fe == IF hasFrac THEN DigitRunEnd(cs, e + 2) ELSE e
    IN  IF e >= p /\ fe < Len(cs) /\ cs[fe + 1] = "S"
        THEN [val |-> <<DigitsVal(SubSeq(cs, p, e))>>, next |-> fe + 2]
        ELSE [val |-> <<>>, next |-> p]

(* re.match(...): [matched, hours, minutes, seconds (groups, <<>> = None), end] *)
MatchDuration(value) ==
    LET cs == Chars[value]
        h == UnitGroup(cs, 3, "H")
        m == UnitGroup(cs, h.next, "M")
        s == SecondsGroup(cs, m.next)
    IN  IF Len(cs) >= 2 /\ cs[1] = "P" /\ cs[2] = "T"
        THEN [matched |-> TRUE, hours |-> h.val, minutes |-> m.val, seconds |-> s.val,
              end |-> s.next]
        ELSE [matched |-> FALSE, hours |-> <<>>, minutes |-> <<>>, seconds |-> <<>>, end |-> 1]

(* group or 0 *)
OrZero(g) == IF g = <<>> THEN 0 ELSE g[1]

(* int(hours * 3600 + minutes * 60 + seconds) *)
SessionSeconds(m) == OrZero(m.hours) * 3600 + OrZero(m.minutes) * 60 + OrZero(m.seconds)

(* f"PT{t}S" if t else "PT0S" *)
DurationStr(t) == IF t # 0 THEN "PT" \o IntStr(t) \o "S" ELSE "PT0S"

----------------------------------------------------------------------------
(* Rows *)

(* LearnerAttempt(...) built without attempt_number, left to the column default *)
NewAttemptDefaultNumber(u, s, e, count) ==
    [user_id |-> u, sco_id |-> s, enrollment_id |-> e,
     attempt_number |-> 1,
     completion_status |-> "not attempted", success_status |-> "unknown",
     score_raw |-> NoneNum, score_min |-> NoneNum, score_max |-> NoneNum,
     score_scaled |-> NoneNum,
     session_time |-> 0, total_time |-> 0,
     location |-> NoneStr, suspend_data |-> NoneStr,
     entry |-> "ab-initio", exit_mode |-> NoneStr,
     progress_measure |-> NoneNum,
     last_accessed_at |-> 0, completed_at |-> 0]

(* LearnerAttempt(...) as scorm_initialize builds it, with the column defaults *)
NewAttempt(u, s, e, count) ==
    [user_id |-> u, sco_id |-> s, enrollment_id |-> e,
     attempt_number |-> count + 1,
     completion_status |-> "not attempted", success_status |-> "unknown",
     score_raw |-> NoneNum, score_min |-> NoneNum, score_max |-> NoneNum,
     score_scaled |-> NoneNum,
     session_time |-> 0, total_time |-> 0,
     location |-> NoneStr, suspend_data |-> NoneStr,
     entry |-> "ab-initio", exit_mode |-> NoneStr,
     progress_measure |-> NoneNum,
     last_accessed_at |-> 0, completed_at |-> 0]

AttemptIds == 1 .. Len(attempts)
EnrollmentIds == 1 .. Len(enrollments)

(* datetime.utcnow() as seen by a request that touches attempt row a.  Time  *)
(* stamps are 0 (NULL), 1 or 2; they are only ever compared for equality, so *)
(* the clock is kept modulo the stamp the row carries: the new stamp is the  *)
(* one of 1, 2 that differs from the row's last_accessed_at                  *)
Now(a) == IF a.last_accessed_at = 1 THEN 2 ELSE 1

(* The enrollment query without its is_active filter *)
EnrollmentsAnyState(u, c) ==
    {e \in EnrollmentIds : enrollments[e].user_id = u /\ enrollments[e].course_id = c}

(* Enrollment rows matching user, course and is_active == True *)
ActiveEnrollments(u, c) ==
    {e \in EnrollmentIds : /\ enrollments[e].user_id = u
                           /\ enrollments[e].course_id = c
                           /\ enrollments[e].is_active}

(* The open-attempt query of scorm_initialize *)
OpenAttempts(u, s, e) ==
    {a \in AttemptIds : /\ attempts[a].user_id = u
                        /\ attempts[a].sco_id = s
                        /\ attempts[a].enrollment_id = e
                        /\ attempts[a].completion_status \in {"incomplete", "not attempted"}}

(* The count without its user_id filter *)
AttemptCountAnyUser(u, s) ==
    Cardinality({a \in AttemptIds : attempts[a].sco_id = s})

(* The count of previous attempts of scorm_initialize *)
AttemptCount(u, s) ==
    Cardinality({a \in AttemptIds : attempts[a].user_id = u /\ attempts[a].sco_id = s})

(* The lookup without its user_id filter *)
FindAttemptAnyOwner(aid, u) ==
    {a \in AttemptIds : a = aid}

(* The attempt lookup of get-value, set-value, commit and finish: the ids of *)
(* the rows with this id and this owner (empty or a singleton)               *)
FindAttempt(aid, u) ==
    {a \in AttemptIds : a = aid /\ attempts[a].user_id = u}

----------------------------------------------------------------------------
(* Requests and responses *)

(* What the caller sees, with the request that produced it.  http is the    *)
(* status of the HTTP response: 200 for a returned body, 404 for a raised   *)
(* HTTPException, 500 for any other exception the handler lets escape.      *)
Response(op, u, target, element, value, http, success, code) ==
    [op |-> op, user |-> u, target |-> target, element |-> element, value |-> value,
     http |-> http, success |-> success, error_code |-> code,
     attempt_id |-> 0, out |-> "", launch_data |-> "", mastery_score |-> NoneNum,
     progress |-> <<>>]

(* The early returns with the enrollment check ahead of the SCO check *)
InitializePreconditionEnrollmentFirst(u, s) ==
    IF \A c \in Courses : ActiveEnrollments(u, c) = {} THEN "401"
    ELSE IF s \notin ScoIds THEN "201"
    ELSE IF ActiveEnrollments(u, ScoCourse[s]) = {} THEN "401"
    ELSE "0"

(* The two early returns of scorm_initialize, in the order of the code *)
InitializePrecondition(u, s) ==
    IF s \notin ScoIds THEN "201"
    ELSE IF ActiveEnrollments(u, ScoCourse[s]) = {} THEN "401"
    ELSE "0"

(* The else branch with a reset of the status of the resumed attempt *)
ResumeAttemptReset(a) ==
    [a EXCEPT !.entry = "resume", !.last_accessed_at = Now(a),
              !.completion_status = "not attempted"]

(* The else branch of scorm_initialize: resume the open attempt *)
ResumeAttempt(a) ==
    [a EXCEPT !.entry = "resume", !.last_accessed_at = Now(a)]

(* The lookup failure reported as not authorized *)
AttemptNotFound401 == [success |-> FALSE, error_code |-> "401"]

(* The body returned when the attempt lookup finds no row *)
AttemptNotFound == [success |-> FALSE, error_code |-> "201"]

(* The chain with the two status elements stored without a vocabulary check *)
SetValueElementVerbatim(o, element, value) ==
    CASE element = "cmi.completion_status" ->
           [error_code |-> "0",
            o |-> [o EXCEPT !.completion_status = value,
                            !.completed_at =
                               IF value = "completed" /\ o.completed_at = 0
                               THEN Now(o) ELSE @]]
      [] element = "cmi.success_status" ->
           [error_code |-> "0", o |-> [o EXCEPT !.success_status = value]]
      [] OTHER -> [error_code |-> "0", o |-> o]

(* The chain with an else branch that keeps the value of an untracked       *)
(* element in the bookmark column                                           *)
SetValueElementCatchAll(o, element, value) ==
    IF element \in {"cmi.completion_status", "cmi.success_status", "cmi.score.raw",
                    "cmi.score.min", "cmi.score.max", "cmi.score.scaled",
                    "cmi.location", "cmi.suspend_data", "cmi.exit",
                    "cmi.session_time", "cmi.progress_measure"}
    THEN [error_code |-> "0", o |-> o]
    ELSE [error_code |-> "0", o |-> [o EXCEPT !.location = value]]

(* The chain with a completion_status branch that does not stamp completed_at *)
SetValueElementNoStamp(o, element, value) ==
    IF /\ element = "cmi.completion_status"
       /\ value \in {"completed", "incomplete", "not attempted", "unknown"}
    THEN [error_code |-> "0", o |-> [o EXCEPT !.completion_status = value]]
    ELSE [error_code |-> "0", o |-> o]

(* The if/elif chain of scorm_set_value applied to the ORM object o:        *)
(* [error_code, o]; "405" is the early return of cmi.suspend_data or the    *)
(* ValueError of float() caught by the except clause                        *)
SetValueElement(o, element, value) ==
    LET now == Now(o)
        raises == value # "" /\ ParseFloat(value) = <<>>
        fl == IF value # "" THEN ParseFloat(value) ELSE NoneNum
        m == MatchDuration(value)
    IN  CASE element = "cmi.completion_status" ->
               IF value \in {"completed", "incomplete", "not attempted", "unknown"}
               THEN [error_code |-> "0",
                     o |-> [o EXCEPT !.completion_status = value,
                                     !.completed_at =
                                        IF value = "completed" /\ o.completed_at = 0
                                        THEN now ELSE @]]
               ELSE [error_code |-> "0", o |-> o]
          [] element = "cmi.success_status" ->
               IF value \in {"passed", "failed", "unknown"}
               THEN [error_code |-> "0", o |-> [o EXCEPT !.success_status = value]]
               ELSE [error_code |-> "0", o |-> o]
          [] element = "cmi.score.raw" ->
               IF raises THEN [error_code |-> "405", o |-> o]
               ELSE [error_code |-> "0", o |-> [o EXCEPT !.score_raw = fl]]
          [] element = "cmi.score.min" ->
               IF raises THEN [error_code |-> "405", o |-> o]
               ELSE [error_code |-> "0", o |-> [o EXCEPT !.score_min = fl]]
          [] element = "cmi.score.max" ->
               IF raises THEN [error_code |-> "405", o |-> o]
               ELSE [error_code |-> "0", o |-> [o EXCEPT !.score_max = fl]]
          [] element = "cmi.score.scaled" ->
               IF raises THEN [error_code |-> "405", o |-> o]
               ELSE [error_code |-> "0", o |-> [o EXCEPT !.score_scaled = fl]]
          [] element = "cmi.location" ->
               [error_code |-> "0", o |-> [o EXCEPT !.location = value]]
          [] element = "cmi.suspend_data" ->
               IF Len(value) <= SuspendDataLimit
               THEN [error_code |-> "0", o |-> [o EXCEPT !.suspend_data = value]]
               ELSE [error_code |-> "405", o |-> o]
          [] element = "cmi.exit" ->
               [error_code |-> "0", o |-> [o EXCEPT !.exit_mode = value]]
          [] element = "cmi.session_time" ->
               IF m.matched
               THEN [error_code |-> "0",
                     o |-> [o EXCEPT !.session_time = SessionSeconds(m),
                                     !.total_time = @ + SessionSeconds(m)]]
               ELSE [error_code |-> "0", o |-> o]
          [] element = "cmi.progress_measure" ->
               IF raises THEN [error_code |-> "405", o |-> o]
               ELSE [error_code |-> "0", o |-> [o EXCEPT !.progress_measure = fl]]
          [] OTHER -> [error_code |-> "0", o |-> o]

(* The try block with the last-accessed stamp ahead of the chain *)
SetValueObjectStampsFirst(o, element, value) ==
    [error_code |-> SetValueElement(o, element, value).error_code,
     o |-> [SetValueElement(o, element, value).o EXCEPT !.last_accessed_at = Now(o)]]

(* The try block of scorm_set_value: the chain, then the last-accessed stamp *)
SetValueObject(o, element, value) ==
    LET r == SetValueElement(o, element, value)
    IN  IF r.error_code = "0"
        THEN [error_code |-> "0", o |-> [r.o EXCEPT !.last_accessed_at = Now(o)]]
        ELSE r

(* A rollback that leaves the pending assignments in the row *)
RollbackKeepsPending(a, o) == o

(* What db.rollback() in the except clause of commit and finish leaves of   *)
(* the pending assignments to row a: the row as committed                   *)
Rollback(a, o) == a

(* What the session's close leaves of the handler's uncommitted assignments *)
(* to row a: get_db closes the session without a commit, so the row stays   *)
(* as committed and the object o is dropped                                 *)
CloseSession(a, o) == a

(* x or "" for a nullable string column *)
OrEmpty(x) == IF x = NoneStr THEN "" ELSE x

(* str(x) if x is not None else "" for a nullable Float column *)
FloatOrEmpty(x) == IF x # NoneNum THEN FloatStr(x[1]) ELSE ""

(* cmi_map.get(element, "") of scorm_get_value *)
CmiValue(o, element, u) ==
    CASE element = "cmi.completion_status" -> o.completion_status
      [] element = "cmi.success_status" -> o.success_status
      [] element = "cmi.score.raw" -> FloatOrEmpty(o.score_raw)
      [] element = "cmi.score.min" -> FloatOrEmpty(o.score_min)
      [] element = "cmi.score.max" -> FloatOrEmpty(o.score_max)
      [] element = "cmi.score.scaled" -> FloatOrEmpty(o.score_scaled)
      [] element = "cmi.location" -> OrEmpty(o.location)
      [] element = "cmi.suspend_data" -> OrEmpty(o.suspend_data)
      [] element = "cmi.entry" -> OrEmpty(o.entry)
      [] element = "cmi.exit" -> OrEmpty(o.exit_mode)
      [] element = "cmi.session_time" -> DurationStr(o.session_time)
      [] element = "cmi.total_time" -> DurationStr(o.total_time)
      [] element = "cmi.progress_measure" -> FloatOrEmpty(o.progress_measure)
      [] element = "cmi.learner_id" -> IntStr(u)
      [] element = "cmi.learner_name" -> LearnerName[u]
      [] element = "cmi.mode" -> "normal"
      [] element = "cmi.credit" -> "credit"
      [] OTHER -> ""

(* The try block without the transition out of "not attempted" *)
FinishObjectKeepStatus(o) ==
    [o EXCEPT !.last_accessed_at = Now(o)]

(* The try block with a transition that moves the status on at every call *)
FinishObjectAdvance(o) ==
    [o EXCEPT !.last_accessed_at = Now(o),
              !.completion_status = IF @ = "not attempted" THEN "incomplete"
                                    ELSE IF @ = "incomplete" THEN "completed" ELSE @]

(* The try block of scorm_finish applied to the ORM object o *)
FinishObject(o) ==
    [o EXCEPT !.last_accessed_at = Now(o),
              !.completion_status = IF @ = "not attempted" THEN "incomplete" ELSE @]

(* The row taken from the caller's attempt with the lowest attempt_number *)
ProgressEntryFirstAttempt(u, s) ==
    LET mine == {a \in AttemptIds : attempts[a].sco_id = s /\ attempts[a].user_id = u}
    IN  IF mine = {}
        THEN [sco_id |-> s, completion_status |-> "not attempted",
              success_status |-> "unknown", score_scaled |-> NoneNum, total_time |-> 0]
        ELSE LET first == CHOOSE a \in mine :
                              \A b \in mine : attempts[a].attempt_number <= attempts[b].attempt_number
             IN  [sco_id |-> s, completion_status |-> attempts[first].completion_status,
                  success_status |-> attempts[first].success_status,
                  score_scaled |-> attempts[first].score_scaled,
                  total_time |-> attempts[first].total_time]

(* The row of get_course_scorm_progress for one SCO: the caller's attempt   *)
(* with the highest attempt_number, or the defaults                         *)
ProgressEntry(u, s) ==
    LET mine == {a \in AttemptIds : attempts[a].sco_id = s /\ attempts[a].user_id = u}
    IN  IF mine = {}
        THEN [sco_id |-> s, completion_status |-> "not attempted",
              success_status |-> "unknown", score_scaled |-> NoneNum, total_time |-> 0]
        ELSE LET latest == CHOOSE a \in mine :
                               \A b \in mine : attempts[b].attempt_number <= attempts[a].attempt_number
             IN  [sco_id |-> s, completion_status |-> attempts[latest].completion_status,
                  success_status |-> attempts[latest].success_status,
                  score_scaled |-> attempts[latest].score_scaled,
                  total_time |-> attempts[latest].total_time]

----------------------------------------------------------------------------
(* Enrollment collaborator *)

(* POST /enrollments: reactivate the caller's row for the course, or insert *)
(* one; refused when the row found is active                                *)
enroll_in_course(u, c) ==
    LET existing == {e \in EnrollmentIds :
                        enrollments[e].user_id = u /\ enrollments[e].course_id = c}
    IN  /\ obj' = <<>>
        /\ UNCHANGED attempts
        /\ IF existing = {}
           THEN /\ Len(enrollments) < MaxEnrollments
                /\ enrollments' = Append(enrollments,
                                         [user_id |-> u, course_id |-> c, is_active |-> TRUE])
                /\ resp' = Response("enroll", u, c, "", "", 201, TRUE, "")
           ELSE \E e \in existing :
                    IF enrollments[e].is_active
                    THEN /\ UNCHANGED enrollments
                         /\ resp' = Response("enroll", u, c, "", "", 400, FALSE, "")
                    ELSE /\ enrollments' = [enrollments EXCEPT ![e].is_active = TRUE]
                         /\ resp' = Response("enroll", u, c, "", "", 201, TRUE, "")

(* POST /payments/webhook, checkout.session.completed of a payment of user  *)
(* u for course c: inserts an enrollment row without looking for one        *)
stripe_webhook(u, c) ==
    /\ Len(enrollments) < MaxEnrollments
    /\ enrollments' = Append(enrollments,
                             [user_id |-> u, course_id |-> c, is_active |-> TRUE])
    /\ resp' = Response("webhook", u, c, "", "", 200, TRUE, "")
    /\ obj' = <<>>
    /\ UNCHANGED attempts

(* The collaborator that owns enrollments clears is_active of row e *)
DeactivateEnrollment(e) ==
    /\ enrollments[e].is_active
    /\ enrollments' = [enrollments EXCEPT ![e].is_active = FALSE]
    /\ resp' = Response("deactivate", enrollments[e].user_id, enrollments[e].course_id,
                        "", "", 200, TRUE, "")
    /\ obj' = <<>>
    /\ UNCHANGED attempts

----------------------------------------------------------------------------
(* RTE requests.  dbok is whether db.commit() succeeds in this request.     *)

(* POST /scorm/initialize/{sco_id}.  Query.first() has no ORDER BY: with    *)
(* several matching rows the database may return any of them.               *)
scorm_initialize(u, s, dbok) ==
    LET pre == InitializePrecondition(u, s)
    IN  /\ UNCHANGED enrollments
        /\ IF pre # "0"
           THEN /\ resp' = Response("initialize", u, s, "", "", 200, FALSE, pre)
                /\ obj' = <<>>
                /\ UNCHANGED attempts
           ELSE \E e \in ActiveEnrollments(u, ScoCourse[s]) :
                    IF OpenAttempts(u, s, e) = {}
                    THEN /\ Len(attempts) < MaxAttempts
                         /\ obj' = <<NewAttempt(u, s, e, AttemptCount(u, s))>>
                         /\ IF dbok
                            THEN /\ attempts' = Append(attempts, obj'[1])
                                 /\ resp' = [Response("initialize", u, s, "", "", 200, TRUE, "0")
                                               EXCEPT !.attempt_id = Len(attempts) + 1,
                                                      !.launch_data = LaunchData[s],
                                                      !.mastery_score = MasteryScore[s]]
                            ELSE /\ UNCHANGED attempts
                                 /\ resp' = Response("initialize", u, s, "", "", 500, FALSE, "")
                    ELSE \E a \in OpenAttempts(u, s, e) :
                            /\ obj' = <<ResumeAttempt(attempts[a])>>
                            /\ IF dbok
                               THEN /\ attempts' = [attempts EXCEPT ![a] = obj'[1]]
                                    /\ resp' = [Response("initialize", u, s, "", "", 200, TRUE, "0")
                                                  EXCEPT !.attempt_id = a,
                                                         !.launch_data = LaunchData[s],
                                                         !.mastery_score = MasteryScore[s]]
                               ELSE /\ UNCHANGED attempts
                                    /\ resp' = Response("initialize", u, s, "", "", 500, FALSE, "")

(* POST /scorm/get-value/{attempt_id} *)
scorm_get_value(u, aid, element) ==
    /\ UNCHANGED <<enrollments, attempts>>
    /\ IF FindAttempt(aid, u) = {}
       THEN /\ resp' = Response("get-value", u, aid, element, "", 200,
                                AttemptNotFound.success, AttemptNotFound.error_code)
            /\ obj' = <<>>
       ELSE /\ resp' = [Response("get-value", u, aid, element, "", 200, TRUE, "0")
                          EXCEPT !.out = CmiValue(attempts[aid], element, u)]
            /\ obj' = <<attempts[aid]>>

(* POST /scorm/set-value/{attempt_id} *)
scorm_set_value(u, aid, element, value) ==
    /\ UNCHANGED enrollments
    /\ IF FindAttempt(aid, u) = {}
       THEN /\ resp' = Response("set-value", u, aid, element, value, 200,
                                AttemptNotFound.success, AttemptNotFound.error_code)
            /\ obj' = <<>>
            /\ UNCHANGED attempts
       ELSE LET r == SetValueObject(attempts[aid], element, value)
            IN  /\ resp' = Response("set-value", u, aid, element, value, 200,
                                    r.error_code = "0", r.error_code)
                /\ obj' = <<r.o>>
                /\ attempts' = [attempts EXCEPT ![aid] = CloseSession(@, r.o)]

(* POST /scorm/commit/{attempt_id} *)
scorm_commit(u, aid, dbok) ==
    /\ UNCHANGED <<enrollments, attempts>>
    /\ IF FindAttempt(aid, u) = {}
       THEN /\ resp' = Response("commit", u, aid, "", "", 200,
                                AttemptNotFound.success, AttemptNotFound.error_code)
            /\ obj' = <<>>
       ELSE /\ resp' = IF dbok THEN Response("commit", u, aid, "", "", 200, TRUE, "0")
                       ELSE Response("commit", u, aid, "", "", 200, FALSE, "391")
            /\ obj' = <<attempts[aid]>>

(* POST /scorm/finish/{attempt_id} *)
scorm_finish(u, aid, dbok) ==
    /\ UNCHANGED enrollments
    /\ IF FindAttempt(aid, u) = {}
       THEN /\ resp' = Response("finish", u, aid, "", "", 200,
                                AttemptNotFound.success, AttemptNotFound.error_code)
            /\ obj' = <<>>
            /\ UNCHANGED attempts
       ELSE /\ obj' = <<FinishObject(attempts[aid])>>
            /\ IF dbok
               THEN /\ attempts' = [attempts EXCEPT ![aid] = obj'[1]]
                    /\ resp' = Response("finish", u, aid, "", "", 200, TRUE, "0")
               ELSE /\ attempts' = [attempts EXCEPT ![aid] = Rollback(@, obj'[1])]
                    /\ resp' = Response("finish", u, aid, "", "", 200, FALSE, "391")

(* GET /scorm/get-last-error/{attempt_id} *)
scorm_get_last_error(u, aid) ==
    /\ resp' = Response("get-last-error", u, aid, "", "", 200, TRUE, "0")
    /\ obj' = <<>>
    /\ UNCHANGED <<enrollments, attempts>>

(* GET /scorm/course/{course_id}/progress; course 3 does not exist *)
get_course_scorm_progress(u, c) ==
    /\ resp' = IF c \notin Courses
               THEN Response("progress", u, c, "", "", 404, FALSE, "")
               ELSE [Response("progress", u, c, "", "", 200, TRUE, "")
                       EXCEPT !.progress =
                          [s \in {x \in ScoIds : ScoCourse[x] = c} |-> ProgressEntry(u, s)]]
    /\ obj' = <<>>
    /\ UNCHANGED <<enrollments, attempts>>

----------------------------------------------------------------------------------------------------------------------------------------------------------------------------------------------------
(* The system *)

NoPlayer == [phase |-> "none", user |-> 0, sco |-> 0, aid |-> 0, written |-> {}]

(* The server processes that can each be inside scorm_initialize, and what one *)
(* of them holds between its queries and its commit: the request's learner    *)
(* and SCO, the enrollment row, the open attempt found (0 for none) and the   *)
(* count of previous attempts; after the request, the attempt id it returned  *)
Workers == {1, 2}
IdleWorker == [pc |-> "idle", user |-> 0, sco |-> 0, enrollment |-> 0,
               found |-> 0, count |-> 0, returned |-> 0]
NoInflight == [w \in Workers |-> IdleWorker]

(* The second database of SpecPair while it is not in use *)
NoTwin == [attempts |-> <<>>, resp |-> Response("none", 1, 0, "", "", 200, TRUE, ""),
           pending |-> <<>>, side |-> "with"]

(* A request served for a caller whose player session is not followed *)
Served == prev' = attempts /\ UNCHANGED <<player, inflight, twin>>

(* Attempt lifecycle.  Learner 2 has enrolled in course 1 and opened SCO 1  *)
(* (enroll_in_course(2, 1), then scorm_initialize(2, 1, TRUE), from empty   *)
(* tables); from there learner 1 enrolls, is enrolled again by payments, is *)
(* deactivated, and issues RTE calls on every SCO and every attempt id.     *)
LifecycleSetInputs ==
    {<<"cmi.completion_status", "completed">>, <<"cmi.completion_status", "incomplete">>}

LifecycleGetElements == {"cmi.completion_status"}

Init ==
    /\ enrollments = <<[user_id |-> 2, course_id |-> 1, is_active |-> TRUE]>>
    /\ attempts = <<NewAttempt(2, 1, 1, 0)>>
    /\ resp = Response("none", 1, 0, "", "", 200, TRUE, "")
    /\ obj = <<>>
    /\ prev = attempts
    /\ player = NoPlayer
    /\ inflight = NoInflight
    /\ twin = NoTwin

Next ==
    \/ \E c \in Courses : enroll_in_course(1, c) /\ Served
    \/ \E c \in Courses : stripe_webhook(1, c) /\ Served
    \/ \E e \in EnrollmentIds :
           enrollments[e].user_id = 1 /\ DeactivateEnrollment(e) /\ Served
    \/ \E s \in ScoArgs, dbok \in BOOLEAN : scorm_initialize(1, s, dbok) /\ Served
    \/ \E aid \in AttemptArgs, element \in LifecycleGetElements :
           scorm_get_value(1, aid, element) /\ Served
    \/ \E aid \in AttemptArgs, in \in LifecycleSetInputs :
           scorm_set_value(1, aid, in[1], in[2]) /\ Served
    \/ \E aid \in AttemptArgs, dbok \in BOOLEAN : scorm_commit(1, aid, dbok) /\ Served
    \/ \E aid \in AttemptArgs, dbok \in BOOLEAN : scorm_finish(1, aid, dbok) /\ Served
    \/ \E aid \in AttemptArgs : scorm_get_last_error(1, aid) /\ Served
    \/ \E c \in Courses \cup {3} : get_course_scorm_progress(1, c) /\ Served

Spec == Init /\ [][Next]_vars

(* CMI data model.  Both learners have enrolled in course 1 and opened SCO 1; *)
(* from there both issue the calls of a running session, with every element  *)
(* and value, on every attempt id.                                            *)
InitCmi ==
    /\ enrollments = <<[user_id |-> 1, course_id |-> 1, is_active |-> TRUE],
                       [user_id |-> 2, course_id |-> 1, is_active |-> TRUE]>>
    /\ attempts = <<NewAttempt(1, 1, 1, 0), NewAttempt(2, 1, 2, 0)>>
    /\ resp = Response("none", 1, 0, "", "", 200, TRUE, "")
    /\ obj = <<>>
    /\ prev = attempts
    /\ player = NoPlayer
    /\ inflight = NoInflight
    /\ twin = NoTwin

NextCmi ==
    \/ \E u \in Users, aid \in AttemptArgs, element \in GetElements :
           scorm_get_value(u, aid, element) /\ Served
    \/ \E u \in Users, aid \in AttemptArgs, in \in SetInputs :
           scorm_set_value(u, aid, in[1], in[2]) /\ Served
    \/ \E u \in Users, aid \in AttemptArgs, dbok \in BOOLEAN :
           scorm_commit(u, aid, dbok) /\ Served
    \/ \E u \in Users, aid \in AttemptArgs, dbok \in BOOLEAN :
           scorm_finish(u, aid, dbok) /\ Served
    \/ \E u \in Users, aid \in AttemptArgs : scorm_get_last_error(u, aid) /\ Served

SpecCmi == InitCmi /\ [][NextCmi]_vars

(* One player session, the scenario of the specification: both learners are  *)
(* enrolled in course 1; a player launches a SCO for one of them, writes the *)
(* score and the two statuses in any order, commits, finishes, and then the  *)
(* values are read back.  Every database commit succeeds.                    *)
ScenarioInputs ==
    {<<"cmi.score.scaled", "0.85">>, <<"cmi.completion_status", "completed">>,
     <<"cmi.success_status", "passed">>}

ScenarioElements == {"cmi.score.scaled", "cmi.completion_status", "cmi.success_status"}

InitScenario ==
    /\ enrollments = <<[user_id |-> 1, course_id |-> 1, is_active |-> TRUE],
                       [user_id |-> 2, course_id |-> 1, is_active |-> TRUE]>>
    /\ attempts = <<>>
    /\ resp = Response("none", 1, 0, "", "", 200, TRUE, "")
    /\ obj = <<>>
    /\ prev = attempts
    /\ player = NoPlayer
    /\ inflight = NoInflight
    /\ twin = NoTwin

PlayerLaunch ==
    /\ prev' = attempts
    /\ UNCHANGED <<inflight, twin>>
    /\ player.phase = "none"
    /\ \E u \in Users, s \in ScoIds :
          /\ scorm_initialize(u, s, TRUE)
          /\ player' = [phase |-> "active", user |-> u, sco |-> s,
                        aid |-> resp'.attempt_id, written |-> {}]

PlayerWrite ==
    /\ prev' = attempts
    /\ UNCHANGED <<inflight, twin>>
    /\ player.phase = "active"
    /\ \E in \in ScenarioInputs :
          /\ scorm_set_value(player.user, player.aid, in[1], in[2])
          /\ player' = [player EXCEPT !.written = IF resp'.success THEN @ \cup {in} ELSE @]

PlayerCommit ==
    /\ prev' = attempts
    /\ UNCHANGED <<inflight, twin>>
    /\ player.phase = "active"
    /\ scorm_commit(player.user, player.aid, TRUE)
    /\ player' = [player EXCEPT !.phase = IF resp'.success THEN "committed" ELSE @]

PlayerFinish ==
    /\ prev' = attempts
    /\ UNCHANGED <<inflight, twin>>
    /\ player.phase = "committed"
    /\ scorm_finish(player.user, player.aid, TRUE)
    /\ player' = [player EXCEPT !.phase = IF resp'.success THEN "finished" ELSE @]

ReadValue ==
    /\ player.phase = "finished"
    /\ \E element \in ScenarioElements : scorm_get_value(player.user, player.aid, element)
    /\ UNCHANGED <<player, inflight, twin>>
    /\ prev' = attempts

ReadProgress ==
    /\ player.phase = "finished"
    /\ get_course_scorm_progress(player.user, ScoCourse[player.sco])
    /\ UNCHANGED <<player, inflight, twin>>
    /\ prev' = attempts

(* The learner opens the SCO again after the session has been finished *)
PlayerRelaunch ==
    /\ prev' = attempts
    /\ UNCHANGED <<inflight, twin>>
    /\ player.phase = "finished"
    /\ scorm_initialize(player.user, player.sco, TRUE)
    /\ player' = [player EXCEPT !.phase = "relaunched"]

NextScenario ==
    \/ PlayerLaunch
    \/ PlayerRelaunch
    \/ PlayerWrite
    \/ PlayerCommit
    \/ PlayerFinish
    \/ ReadValue
    \/ ReadProgress

SpecScenario == InitScenario /\ [][NextScenario]_vars

(* Concurrent Initialize.  Both learners are enrolled in course 1, once     *)
(* each, and learner 2 has opened SCO 1.  Two server processes serve the    *)
(* Initialize requests of learner 1 (two browser tabs); the queries of one  *)
(* request and its commit are separate steps, so the steps of two requests  *)
(* can interleave.                                                          *)

(* scorm_initialize up to the decision: the SCO and enrollment checks, the  *)
(* open-attempt query and the count, run by server process w                *)
InitializeQueries(w, u, s) ==
    /\ inflight[w].pc # "looked"
    /\ prev' = attempts
    /\ UNCHANGED <<enrollments, attempts, player, twin>>
    /\ IF InitializePrecondition(u, s) # "0"
       THEN /\ resp' = Response("initialize", u, s, "", "", 200, FALSE,
                                InitializePrecondition(u, s))
            /\ obj' = <<>>
            /\ inflight' = [inflight EXCEPT ![w] = IdleWorker]
       ELSE /\ UNCHANGED <<resp, obj>>
            /\ \E e \in ActiveEnrollments(u, ScoCourse[s]) :
                  IF OpenAttempts(u, s, e) = {}
                  THEN inflight' = [inflight EXCEPT ![w] =
                                       [pc |-> "looked", user |-> u, sco |-> s,
                                        enrollment |-> e, found |-> 0,
                                        count |-> AttemptCount(u, s), returned |-> 0]]
                  ELSE \E a \in OpenAttempts(u, s, e) :
                          inflight' = [inflight EXCEPT ![w] =
                                          [pc |-> "looked", user |-> u, sco |-> s,
                                           enrollment |-> e, found |-> a,
                                           count |-> 0, returned |-> 0]]

(* The open attempt as the commit step would see it if it ran the query again *)
LookedUpAttemptAgain(w) ==
    LET open == OpenAttempts(inflight[w].user, inflight[w].sco, inflight[w].enrollment)
    IN  IF open = {} THEN 0 ELSE CHOOSE a \in open : TRUE

(* The local variable attempt of the request in w: the result of the query  *)
(* it ran, whatever has been committed since                                *)
LookedUpAttempt(w) == inflight[w].found

(* scorm_initialize from the decision on: build or resume, commit, return *)
InitializeCommit(w, dbok) ==
    /\ inflight[w].pc = "looked"
    /\ prev' = attempts
    /\ UNCHANGED <<enrollments, player, twin>>
    /\ IF LookedUpAttempt(w) = 0
       THEN /\ Len(attempts) < MaxAttempts
            /\ obj' = <<NewAttempt(inflight[w].user, inflight[w].sco,
                                   inflight[w].enrollment, inflight[w].count)>>
            /\ IF dbok
               THEN /\ attempts' = Append(attempts, obj'[1])
                    /\ resp' = [Response("initialize", inflight[w].user, inflight[w].sco,
                                         "", "", 200, TRUE, "0")
                                  EXCEPT !.attempt_id = Len(attempts) + 1,
                                         !.launch_data = LaunchData[inflight[w].sco],
                                         !.mastery_score = MasteryScore[inflight[w].sco]]
               ELSE /\ UNCHANGED attempts
                    /\ resp' = Response("initialize", inflight[w].user, inflight[w].sco,
                                        "", "", 500, FALSE, "")
       ELSE /\ obj' = <<ResumeAttempt(attempts[LookedUpAttempt(w)])>>
            /\ IF dbok
               THEN /\ attempts' = [attempts EXCEPT ![LookedUpAttempt(w)] = obj'[1]]
                    /\ resp' = [Response("initialize", inflight[w].user, inflight[w].sco,
                                         "", "", 200, TRUE, "0")
                                  EXCEPT !.attempt_id = LookedUpAttempt(w),
                                         !.launch_data = LaunchData[inflight[w].sco],
                                         !.mastery_score = MasteryScore[inflight[w].sco]]
               ELSE /\ UNCHANGED attempts
                    /\ resp' = Response("initialize", inflight[w].user, inflight[w].sco,
                                        "", "", 500, FALSE, "")
    /\ inflight' = [inflight EXCEPT ![w].pc = "done", ![w].returned = resp'.attempt_id]

InitRace ==
    /\ enrollments = <<[user_id |-> 1, course_id |-> 1, is_active |-> TRUE],
                       [user_id |-> 2, course_id |-> 1, is_active |-> TRUE]>>
    /\ attempts = <<NewAttempt(2, 1, 2, 0)>>
    /\ resp = Response("none", 1, 0, "", "", 200, TRUE, "")
    /\ obj = <<>>
    /\ prev = attempts
    /\ player = NoPlayer
    /\ inflight = NoInflight
    /\ twin = NoTwin

NextRace ==
    \/ \E w \in Workers, s \in ScoArgs : InitializeQueries(w, 1, s)
    \/ \E w \in Workers, dbok \in BOOLEAN : InitializeCommit(w, dbok)

SpecRace == InitRace /\ [][NextRace]_vars

(* One call sequence on two databases.  Both learners are enrolled in       *)
(* course 1, once each.  In one database learner 2 has opened SCO 1, in the *)
(* other learner 2 has no attempt.  Learner 1 issues a request; it is       *)
(* served on the first database, then the same request is served on the     *)
(* second.  attempts holds the database being served, twin the other one.   *)
(* The player addresses an attempt by the id Initialize returned for it, so *)
(* a request names learner 1's k-th attempt; OwnId is its id in the         *)
(* database being served (an id that is no row when there is no k-th).      *)
Observer == 1

OwnedByObserver(row) == row.user_id = Observer

OwnIds == {a \in AttemptIds : OwnedByObserver(attempts[a])}

OwnId(k) ==
    IF k <= Cardinality(OwnIds)
    THEN CHOOSE a \in OwnIds : Cardinality({b \in OwnIds : b <= a}) = k
    ELSE Len(attempts) + 1

PairRequests ==
    [op : {"initialize"}, arg : ScoArgs, element : {""}, value : {""}, dbok : BOOLEAN]
    \cup [op : {"get-value"}, arg : {1, 2}, element : {"cmi.completion_status", "cmi.entry"},
          value : {""}, dbok : {TRUE}]
    \cup [op : {"set-value"}, arg : {1, 2}, element : {"cmi.completion_status"},
          value : {"completed"}, dbok : {TRUE}]
    \cup [op : {"commit", "finish"}, arg : {1, 2}, element : {""}, value : {""},
          dbok : BOOLEAN]

(* The handler of request req, called by the observer *)
Perform(req) ==
    \/ req.op = "initialize" /\ scorm_initialize(Observer, req.arg, req.dbok)
    \/ req.op = "get-value" /\ scorm_get_value(Observer, OwnId(req.arg), req.element)
    \/ req.op = "set-value" /\ scorm_set_value(Observer, OwnId(req.arg), req.element, req.value)
    \/ req.op = "commit" /\ scorm_commit(Observer, OwnId(req.arg), req.dbok)
    \/ req.op = "finish" /\ scorm_finish(Observer, OwnId(req.arg), req.dbok)

(* A request is served on the database with learner 2's attempts *)
PairServe(req) ==
    /\ twin.side = "with"
    /\ twin.pending = <<>>
    /\ Perform(req)
    /\ prev' = attempts
    /\ twin' = [twin EXCEPT !.pending = <<req>>]
    /\ UNCHANGED <<player, inflight>>

(* The server is pointed at the other database *)
PairSwitch ==
    /\ twin.side = "with"
    /\ twin.pending # <<>>
    /\ attempts' = twin.attempts
    /\ twin' = [twin EXCEPT !.attempts = attempts, !.resp = resp, !.side = "without"]
    /\ UNCHANGED <<enrollments, resp, obj, prev, player, inflight>>

(* The same request is served on the database without learner 2's attempts *)
PairReplay ==
    /\ twin.side = "without"
    /\ twin.pending # <<>>
    /\ Perform(twin.pending[1])
    /\ prev' = attempts
    /\ twin' = [twin EXCEPT !.pending = <<>>]
    /\ UNCHANGED <<player, inflight>>

(* The server is pointed back; resp is again the answer of the first database *)
PairSwitchBack ==
    /\ twin.side = "without"
    /\ twin.pending = <<>>
    /\ attempts' = twin.attempts
    /\ resp' = twin.resp
    /\ twin' = [twin EXCEPT !.attempts = attempts, !.resp = resp, !.side = "with"]
    /\ UNCHANGED <<enrollments, obj, prev, player, inflight>>

InitPair ==
    /\ enrollments = <<[user_id |-> 1, course_id |-> 1, is_active |-> TRUE],
                       [user_id |-> 2, course_id |-> 1, is_active |-> TRUE]>>
    /\ attempts = <<NewAttempt(2, 1, 2, 0)>>
    /\ resp = Response("none", 1, 0, "", "", 200, TRUE, "")
    /\ obj = <<>>
    /\ prev = attempts
    /\ player = NoPlayer
    /\ inflight = NoInflight
    /\ twin = NoTwin

NextPair ==
    \/ \E req \in PairRequests : PairServe(req)
    \/ PairSwitch
    \/ PairReplay
    \/ PairSwitchBack

SpecPair == InitPair /\ [][NextPair]_vars

----------------------------------------------------------------------------
(* Properties *)

PrevIds == 1 .. Len(prev)

(* open attempts of learner u on SCO s, now and when the last request arrived *)
OpenOf(u, s) ==
    {a \in AttemptIds : /\ attempts[a].user_id = u
                        /\ attempts[a].sco_id = s
                        /\ attempts[a].completion_status \in {"incomplete", "not attempted"}}

PrevOpenOf(u, s) ==
    {a \in PrevIds : /\ prev[a].user_id = u
                     /\ prev[a].sco_id = s
                     /\ prev[a].completion_status \in {"incomplete", "not attempted"}}

PrevAttemptsOf(u, s) == {a \in PrevIds : prev[a].user_id = u /\ prev[a].sco_id = s}

(* the last request addressed an attempt row owned by another learner *)
ForeignAttempt ==
    /\ resp.target \in AttemptIds
    /\ attempts[resp.target].user_id # resp.user

(* the last request was an Initialize of an existing SCO by a learner with an *)
(* active enrollment in its course, and its database commit did not raise     *)
EnrolledInitialize ==
    /\ resp.op = "initialize"
    /\ resp.http = 200
    /\ resp.target \in ScoIds
    /\ ActiveEnrollments(resp.user, ScoCourse[resp.target]) # {}

(* C1: in the scenario (Initialize, successful SetValue of score 0.85,        *)
(* completed, passed, then Commit and Finish) every value the player wrote    *)
(* is what a later GetValue returns and what GetCourseProgress reports for    *)
(* that SCO.                                                                  *)
C1_WrittenValuesAreDurable ==
    /\ (player.phase = "finished" /\ resp.op = "get-value") =>
          /\ resp.success
          /\ \A in \in player.written : resp.element = in[1] => resp.out = in[2]
    /\ (player.phase = "finished" /\ resp.op = "progress") =>
          /\ (<<"cmi.score.scaled", "0.85">> \in player.written) =>
                resp.progress[player.sco].score_scaled = <<85>>
          /\ (<<"cmi.completion_status", "completed">> \in player.written) =>
                resp.progress[player.sco].completion_status = "completed"
          /\ (<<"cmi.success_status", "passed">> \in player.written) =>
                resp.progress[player.sco].success_status = "passed"

(* C2: after any sequence of requests served one at a time, every learner has *)
(* at most one open attempt on every SCO.                                     *)
C2_AtMostOneOpenAttempt ==
    \A u \in Users, s \in ScoIds : Cardinality(OpenOf(u, s)) <= 1

(* C3: when an actively enrolled learner who has an open attempt on a SCO     *)
(* calls Initialize on it, the call returns the id of an attempt that was     *)
(* open, that attempt's entry is "resume", and no attempt row is added.       *)
C3_InitializeResumesOpenAttempt ==
    (EnrolledInitialize /\ PrevOpenOf(resp.user, resp.target) # {}) =>
        /\ resp.success
        /\ resp.attempt_id \in PrevOpenOf(resp.user, resp.target)
        /\ attempts[resp.attempt_id].entry = "resume"
        /\ Len(attempts) = Len(prev)

(* C4: when an actively enrolled learner who has no attempt on a SCO calls    *)
(* Initialize on it (and the commit does not raise), the call succeeds with   *)
(* error_code "0", exactly one row is added, that row is the learner's        *)
(* attempt number 1 on the SCO with entry "ab-initio" and completion_status   *)
(* "not attempted", and every other row is as it was.                         *)
C4_FirstInitializeCreatesAttemptOne ==
    (EnrolledInitialize /\ PrevAttemptsOf(resp.user, resp.target) = {}) =>
        /\ resp.success
        /\ resp.error_code = "0"
        /\ Len(attempts) = Len(prev) + 1
        /\ resp.attempt_id = Len(attempts)
        /\ attempts[resp.attempt_id].user_id = resp.user
        /\ attempts[resp.attempt_id].sco_id = resp.target
        /\ attempts[resp.attempt_id].attempt_number = 1
        /\ attempts[resp.attempt_id].entry = "ab-initio"
        /\ attempts[resp.attempt_id].completion_status = "not attempted"
        /\ \A a \in PrevIds : attempts[a] = prev[a]

(* learner 1's first Initialize on SCO 1, on which learner 2 has an attempt *)
C4_Witness ==
    /\ EnrolledInitialize
    /\ PrevAttemptsOf(resp.user, resp.target) = {}
    /\ \E a \in PrevIds : prev[a].sco_id = resp.target
    /\ resp.success
    /\ Len(attempts) = Len(prev) + 1

(* C5: Initialize of an existing SCO by a learner with no active enrollment   *)
(* in its course returns success=false with error_code "401", adds no row     *)
(* and changes no row, also when the learner has an open attempt on the SCO.  *)
C5_NotEnrolledIs401 ==
    (/\ resp.op = "initialize"
     /\ resp.target \in ScoIds
     /\ \A e \in EnrollmentIds :
            \/ enrollments[e].user_id # resp.user
            \/ enrollments[e].course_id # ScoCourse[resp.target]
            \/ ~enrollments[e].is_active) =>
        /\ resp.http = 200
        /\ ~resp.success
        /\ resp.error_code = "401"
        /\ attempts = prev
        /\ obj = <<>>

(* refused although the learner has an open attempt and a deactivated enrollment *)
C5_Witness ==
    /\ resp.op = "initialize"
    /\ resp.target \in ScoIds
    /\ \A e \in EnrollmentIds :
           (enrollments[e].user_id = resp.user /\ enrollments[e].course_id = ScoCourse[resp.target])
               => ~enrollments[e].is_active
    /\ \E e \in EnrollmentIds :
           enrollments[e].user_id = resp.user /\ enrollments[e].course_id = ScoCourse[resp.target]
    /\ OpenOf(resp.user, resp.target) # {}
    /\ resp.error_code = "401"

(* C6: Initialize with a sco_id that is no SCO returns success=false with     *)
(* error_code "201" and adds or changes no row, whether or not the learner    *)
(* has an active enrollment anywhere.                                         *)
C6_UnknownScoIs201 ==
    (resp.op = "initialize" /\ resp.target \notin ScoIds) =>
        /\ resp.http = 200
        /\ ~resp.success
        /\ resp.error_code = "201"
        /\ attempts = prev
        /\ obj = <<>>

(* an unknown SCO asked for by a learner with no active enrollment at all *)
C6_Witness ==
    /\ resp.op = "initialize"
    /\ resp.target \notin ScoIds
    /\ \A c \in Courses : ActiveEnrollments(resp.user, c) = {}
    /\ resp.error_code = "201"

(* C7: GetValue or SetValue on an attempt id owned by another learner returns *)
(* success=false with error_code "201" (GetValue with an empty value), loads  *)
(* no attempt object and leaves every row, last-accessed included, as it was. *)
C7_ForeignGetSetIs201 ==
    (resp.op \in {"get-value", "set-value"} /\ ForeignAttempt) =>
        /\ ~resp.success
        /\ resp.error_code = "201"
        /\ resp.out = ""
        /\ obj = <<>>
        /\ attempts = prev

(* a SetValue of a tracked element on the other learner's attempt *)
C7_Witness ==
    /\ resp.op = "set-value"
    /\ resp.element = "cmi.completion_status"
    /\ resp.value = "completed"
    /\ ForeignAttempt
    /\ resp.error_code = "201"

(* C8 as stated: an RTE operation on an attempt owned by another learner is   *)
(* reported with error_code "401".                                            *)
C8_ForeignAttemptIs401 ==
    (resp.op \in {"get-value", "set-value", "commit", "finish"} /\ ForeignAttempt) =>
        resp.error_code = "401"

(* C8 as amended: GetValue, SetValue, Commit and Finish on an attempt owned   *)
(* by another learner are reported as not found, success=false with           *)
(* error_code "201"; GetLastError does not look at the attempt and reports    *)
(* "0".                                                                       *)
C8_ForeignAttemptIsNotFound ==
    /\ (resp.op \in {"get-value", "set-value", "commit", "finish"} /\ ForeignAttempt) =>
          (~resp.success /\ resp.error_code = "201")
    /\ (resp.op = "get-last-error" /\ ForeignAttempt) =>
          (resp.success /\ resp.error_code = "0")

(* a Finish on the other learner's attempt *)
C8_Witness ==
    /\ resp.op = "finish"
    /\ ForeignAttempt
    /\ resp.error_code = "201"

(* C9: SetValue of cmi.suspend_data by the attempt's owner: a value longer    *)
(* than 64000 is refused with "405" and suspend_data stays as it was; a value *)
(* of at most 64000 is accepted with "0" and is the attempt's suspend_data    *)
(* from then on.                                                              *)
C9_SuspendDataStoredUpToLimit ==
    (/\ resp.op = "set-value"
     /\ resp.element = "cmi.suspend_data"
     /\ FindAttempt(resp.target, resp.user) # {}) =>
        IF Len(resp.value) > SuspendDataLimit
        THEN /\ ~resp.success
             /\ resp.error_code = "405"
             /\ attempts[resp.target].suspend_data = prev[resp.target].suspend_data
        ELSE /\ resp.success
             /\ resp.error_code = "0"
             /\ attempts[resp.target].suspend_data = resp.value

(* the value has the form PT[#H][#M][#S]: the pattern matches all of it *)
WellFormedDuration(value) ==
    MatchDuration(value).matched /\ MatchDuration(value).end = Len(Chars[value]) + 1

(* C10: after a successful SetValue of cmi.session_time with a value of the   *)
(* form PT[#H][#M][#S] the attempt's session_time is hours*3600 + minutes*60  *)
(* + floor(seconds), its total_time has grown by that amount, and a GetValue  *)
(* of cmi.session_time that follows returns "PT<amount>S".                    *)
C10_SessionTimeRoundTrip ==
    [][(/\ resp.op = "set-value"
        /\ resp.success
        /\ resp.element = "cmi.session_time"
        /\ WellFormedDuration(resp.value)
        /\ resp'.op = "get-value"
        /\ resp'.user = resp.user
        /\ resp'.target = resp.target
        /\ resp'.element = "cmi.session_time") =>
           /\ attempts[resp.target].session_time = SessionSeconds(MatchDuration(resp.value))
           /\ attempts[resp.target].total_time =
                 prev[resp.target].total_time + SessionSeconds(MatchDuration(resp.value))
           /\ resp'.out = "PT" \o IntStr(SessionSeconds(MatchDuration(resp.value))) \o "S"]_vars

(* C11: the first successful SetValue of cmi.completion_status "completed"    *)
(* leaves the attempt with a non-null completed_at, and no request changes a  *)
(* completed_at that is set (a repeated SetValue "completed" included).       *)
C11_CompletedAtStampedOnce ==
    /\ (/\ resp.op = "set-value"
        /\ resp.element = "cmi.completion_status"
        /\ resp.value = "completed"
        /\ resp.success) => attempts[resp.target].completed_at # 0
    /\ \A a \in PrevIds :
           prev[a].completed_at # 0 => attempts[a].completed_at = prev[a].completed_at

(* C12: a successful Finish leaves completion_status "incomplete" when it was *)
(* "not attempted" and as it was otherwise, so never "not attempted".         *)
C12_FinishLeavesNotAttempted ==
    (resp.op = "finish" /\ resp.success) =>
        /\ attempts[resp.target].completion_status =
              IF prev[resp.target].completion_status = "not attempted"
              THEN "incomplete"
              ELSE prev[resp.target].completion_status
        /\ attempts[resp.target].completion_status # "not attempted"

(* a Finish that found the attempt "not attempted" *)
C12_Witness ==
    /\ resp.op = "finish"
    /\ resp.success
    /\ prev[resp.target].completion_status = "not attempted"
    /\ attempts[resp.target].completion_status = "incomplete"

(* rows a and b agree in every column but last_accessed_at *)
SameButLastAccessed(a, b) ==
    [a EXCEPT !.last_accessed_at = 0] = [b EXCEPT !.last_accessed_at = 0]

(* C13: when a successful Commit (Finish) is followed at once by a Commit     *)
(* (Finish) of the same learner on the same attempt whose database commit     *)
(* does not raise, the second call also succeeds with error_code "0" and      *)
(* leaves every column of every attempt but last_accessed_at as the first     *)
(* call left it.                                                              *)
C13_CommitAndFinishIdempotent ==
    [][(/\ resp.op \in {"commit", "finish"}
        /\ resp.success
        /\ resp'.op = resp.op
        /\ resp'.user = resp.user
        /\ resp'.target = resp.target
        /\ resp'.error_code # "391") =>
           /\ resp'.success
           /\ resp'.error_code = "0"
           /\ Len(attempts') = Len(attempts)
           /\ \A a \in AttemptIds : SameButLastAccessed(attempts'[a], attempts[a])]_vars

(* a Finish of an attempt that an earlier Finish has already stamped and      *)
(* moved to "incomplete": only the stamp differs                              *)
C13_Witness ==
    /\ resp.op = "finish"
    /\ resp.success
    /\ prev[resp.target].last_accessed_at # 0
    /\ prev[resp.target].completion_status = "incomplete"
    /\ attempts[resp.target].last_accessed_at # prev[resp.target].last_accessed_at
    /\ SameButLastAccessed(attempts[resp.target], prev[resp.target])

(* attempts of learner u on SCO s *)
AttemptsOf(u, s) == {a \in AttemptIds : attempts[a].user_id = u /\ attempts[a].sco_id = s}

(* C14: a GetCourseProgress answer has one entry per SCO of the course; the   *)
(* entry of a SCO the learner has attempts on carries completion_status,      *)
(* success_status, score_scaled and total_time of the learner's attempt with  *)
(* the highest attempt_number; the entry of a SCO without attempts of the     *)
(* learner carries "not attempted", "unknown", no score and time 0, whatever  *)
(* attempts other learners have.                                              *)
C14_ProgressShowsLatestAttempt ==
    (resp.op = "progress" /\ resp.http = 200) =>
        /\ DOMAIN resp.progress = {s \in ScoIds : ScoCourse[s] = resp.target}
        /\ \A s \in DOMAIN resp.progress :
              /\ resp.progress[s].sco_id = s
              /\ IF AttemptsOf(resp.user, s) = {}
                 THEN /\ resp.progress[s].completion_status = "not attempted"
                      /\ resp.progress[s].success_status = "unknown"
                      /\ resp.progress[s].score_scaled = NoneNum
                      /\ resp.progress[s].total_time = 0
                 ELSE \E a \in AttemptsOf(resp.user, s) :
                         /\ \A b \in AttemptsOf(resp.user, s) :
                               attempts[b].attempt_number <= attempts[a].attempt_number
                         /\ resp.progress[s].completion_status = attempts[a].completion_status
                         /\ resp.progress[s].success_status = attempts[a].success_status
                         /\ resp.progress[s].score_scaled = attempts[a].score_scaled
                         /\ resp.progress[s].total_time = attempts[a].total_time

(* the learner's earlier attempt is "incomplete", the latest "not attempted", *)
(* another learner has an attempt on the SCO, and the latest is reported      *)
C14_Witness ==
    /\ resp.op = "progress"
    /\ resp.http = 200
    /\ \E s \in DOMAIN resp.progress :
          /\ \E a, b \in AttemptsOf(resp.user, s) :
                /\ attempts[a].attempt_number < attempts[b].attempt_number
                /\ attempts[a].completion_status = "incomplete"
                /\ attempts[b].completion_status = "not attempted"
          /\ \E c \in AttemptIds : attempts[c].sco_id = s /\ attempts[c].user_id # resp.user
          /\ resp.progress[s].completion_status = "not attempted"

RteOps == {"initialize", "get-value", "set-value", "commit", "finish", "get-last-error"}

(* C15: every RTE request is answered with a body {success, error_code}, not  *)
(* with a raised exception, also when its database commit fails; error_code   *)
(* is one of "0", "201", "401", "405", "391", and success is true exactly     *)
(* when error_code is "0".                                                    *)
C15_StructuredResultNeverRaises ==
    resp.op \in RteOps =>
        /\ resp.http = 200
        /\ resp.error_code \in {"0", "201", "401", "405", "391"}
        /\ resp.success <=> (resp.error_code = "0")

(* C16: a Commit or Finish whose database commit raises is answered           *)
(* success=false with error_code "391", and no row differs from what it was   *)
(* when the request arrived: for Finish neither the transition to             *)
(* "incomplete" nor the last-accessed stamp is stored.                        *)
C16_FailedCommitPersistsNothing ==
    (resp.op \in {"commit", "finish"} /\ resp.error_code = "391") =>
        /\ resp.http = 200
        /\ ~resp.success
        /\ attempts = prev

(* a failed Finish whose session held the transition and the stamp *)
C16_Witness ==
    /\ resp.op = "finish"
    /\ resp.error_code = "391"
    /\ prev[resp.target].completion_status = "not attempted"
    /\ obj # <<>>
    /\ obj[1].completion_status = "incomplete"
    /\ obj[1].last_accessed_at # prev[resp.target].last_accessed_at
    /\ attempts[resp.target] = prev[resp.target]

(* C18: with requests served one at a time, the attempts of one learner on    *)
(* one SCO carry the attempt numbers 1..n, each once, n being their number;   *)
(* an attempt that Initialize adds carries the number of the learner's        *)
(* attempts on the SCO at the arrival of the request, plus one.               *)
C18_AttemptNumbersSequential ==
    /\ \A u \in Users, s \in ScoIds :
          {attempts[a].attempt_number : a \in AttemptsOf(u, s)}
              = 1 .. Cardinality(AttemptsOf(u, s))
    /\ (resp.op = "initialize" /\ resp.success /\ Len(attempts) = Len(prev) + 1) =>
          attempts[Len(attempts)].attempt_number
              = Cardinality(PrevAttemptsOf(resp.user, resp.target)) + 1

(* Initialize has just added the learner's second attempt on a SCO on which   *)
(* another learner has an attempt too                                         *)
C18_Witness ==
    /\ resp.op = "initialize"
    /\ resp.success
    /\ Len(attempts) = Len(prev) + 1
    /\ Cardinality(PrevAttemptsOf(resp.user, resp.target)) = 1
    /\ attempts[Len(attempts)].attempt_number = 2
    /\ \E c \in AttemptIds : attempts[c].sco_id = resp.target /\ attempts[c].user_id # resp.user

(* C19: GetValue, SetValue, Commit and Finish on an attempt id that is not an *)
(* attempt of the calling learner (no Initialize of that learner has created  *)
(* it) are answered success=false with error_code "201", load no attempt and  *)
(* leave every row as it was.                                                 *)
C19_UnknownAttemptIs201 ==
    (/\ resp.op \in {"get-value", "set-value", "commit", "finish"}
     /\ ~\E a \in AttemptIds : a = resp.target /\ attempts[a].user_id = resp.user) =>
        /\ resp.http = 200
        /\ ~resp.success
        /\ resp.error_code = "201"
        /\ obj = <<>>
        /\ attempts = prev

(* a Commit on an id that is no row at all *)
C19_Witness ==
    /\ resp.op = "commit"
    /\ resp.target \notin AttemptIds
    /\ resp.error_code = "201"

(* C20: a SetValue by the owner of cmi.completion_status or                   *)
(* cmi.success_status with a value outside the element's vocabulary is        *)
(* answered success=false with error_code "405" and leaves both fields as     *)
(* they were.                                                                 *)
C20_StatusOutsideVocabularyIs405 ==
    (/\ resp.op = "set-value"
     /\ \E a \in AttemptIds : a = resp.target /\ attempts[a].user_id = resp.user
     /\ \/ /\ resp.element = "cmi.completion_status"
           /\ resp.value \notin {"completed", "incomplete", "not attempted", "unknown"}
        \/ /\ resp.element = "cmi.success_status"
           /\ resp.value \notin {"passed", "failed", "unknown"}) =>
        /\ ~resp.success
        /\ resp.error_code = "405"
        /\ attempts[resp.target].completion_status = prev[resp.target].completion_status
        /\ attempts[resp.target].success_status = prev[resp.target].success_status

(* the requests of server processes v and w were Initialize calls of the same *)
(* learner on the same SCO, neither found an open attempt, and both committed *)
BothCreated(v, w) ==
    /\ v # w
    /\ inflight[v].pc = "done" /\ inflight[w].pc = "done"
    /\ inflight[v].user = inflight[w].user
    /\ inflight[v].sco = inflight[w].sco
    /\ inflight[v].found = 0 /\ inflight[w].found = 0
    /\ inflight[v].returned # 0 /\ inflight[w].returned # 0

(* C17: when two Initialize calls of one learner on one SCO have both run     *)
(* their open-attempt query and count before either committed, and both       *)
(* commit, the table holds two different rows for them, both open with entry  *)
(* "ab-initio" and with the same attempt_number.                              *)
C17_InterleavedInitializeDuplicates ==
    \A v, w \in Workers :
        BothCreated(v, w) =>
            /\ inflight[v].returned # inflight[w].returned
            /\ \A a \in {inflight[v].returned, inflight[w].returned} :
                  /\ attempts[a].user_id = inflight[v].user
                  /\ attempts[a].sco_id = inflight[v].sco
                  /\ attempts[a].entry = "ab-initio"
                  /\ attempts[a].completion_status = "not attempted"
            /\ attempts[inflight[v].returned].attempt_number
                  = attempts[inflight[w].returned].attempt_number

(* both requests have returned, each with its own new attempt *)
C17_Witness ==
    \E v, w \in Workers :
        /\ BothCreated(v, w)
        /\ inflight[v].returned # inflight[w].returned
        /\ attempts[inflight[v].returned].entry = "ab-initio"
        /\ attempts[inflight[w].returned].entry = "ab-initio"
        /\ attempts[inflight[v].returned].attempt_number
              = attempts[inflight[w].returned].attempt_number
        /\ Cardinality(OpenOf(inflight[v].user, inflight[v].sco)) = 2

(* the two status columns of row or object o hold values of their vocabularies *)
StatusesInVocabulary(o) ==
    /\ o.completion_status \in {"not attempted", "incomplete", "completed", "unknown"}
    /\ o.success_status \in {"unknown", "passed", "failed"}

(* C21: every stored attempt, and the attempt object a handler leaves behind, *)
(* has a completion_status in {not attempted, incomplete, completed, unknown} *)
(* and a success_status in {unknown, passed, failed}, whatever values         *)
(* SetValue was called with.                                                  *)
C21_StatusesWithinVocabulary ==
    /\ \A a \in AttemptIds : StatusesInVocabulary(attempts[a])
    /\ \A i \in 1 .. Len(obj) : StatusesInVocabulary(obj[i])

(* the owner has called SetValue of cmi.completion_status with "passed" *)
C21_Witness ==
    /\ resp.op = "set-value"
    /\ resp.element = "cmi.completion_status"
    /\ resp.value = "passed"
    /\ obj # <<>>
    /\ obj[1].completion_status = prev[resp.target].completion_status

ExitVocabulary == {"time-out", "suspend", "logout", "normal", "", NoneStr}

(* C22: every stored attempt, and the attempt object a handler leaves behind, *)
(* has an exit_mode that is unset or one of time-out, suspend, logout,        *)
(* normal, "", whatever value SetValue of cmi.exit was called with.           *)
C22_ExitModeWithinVocabulary ==
    /\ \A a \in AttemptIds : attempts[a].exit_mode \in ExitVocabulary
    /\ \A i \in 1 .. Len(obj) : obj[i].exit_mode \in ExitVocabulary

(* the last request was a SetValue on an attempt of the caller *)
OwnSetValue ==
    /\ resp.op = "set-value"
    /\ \E a \in AttemptIds : a = resp.target /\ attempts[a].user_id = resp.user

(* the elements of the rule table, and those the if/elif chain has a branch for *)
RuleTableElements ==
    {"cmi.completion_status", "cmi.success_status", "cmi.score.raw", "cmi.score.min",
     "cmi.score.max", "cmi.score.scaled", "cmi.location", "cmi.suspend_data",
     "cmi.session_time", "cmi.progress_measure"}

TrackedElements == RuleTableElements \cup {"cmi.exit"}

ScoreElements == {"cmi.score.raw", "cmi.score.min", "cmi.score.max", "cmi.score.scaled"}

(* the score column of row or object o that element names *)
ScoreField(o, element) ==
    CASE element = "cmi.score.raw" -> o.score_raw
      [] element = "cmi.score.min" -> o.score_min
      [] element = "cmi.score.max" -> o.score_max
      [] element = "cmi.score.scaled" -> o.score_scaled

(* C24: a SetValue by the owner of a score element: a numeric string is       *)
(* answered "0" and its number is the attempt's score from then on, the empty *)
(* string is answered "0" and the score is null from then on, any other       *)
(* string is answered success=false with "405" and the score stays as it was; *)
(* the other three scores stay as they were.                                  *)
C24_ScoreParsedStoredOrRejected ==
    (OwnSetValue /\ resp.element \in ScoreElements) =>
        /\ \A e \in ScoreElements \ {resp.element} :
              ScoreField(attempts[resp.target], e) = ScoreField(prev[resp.target], e)
        /\ IF resp.value = ""
           THEN /\ resp.success /\ resp.error_code = "0"
                /\ ScoreField(attempts[resp.target], resp.element) = NoneNum
           ELSE IF resp.value \in {"1", "0.85", "-0.5"}
           THEN /\ resp.success /\ resp.error_code = "0"
                /\ ScoreField(attempts[resp.target], resp.element)
                      = (CASE resp.value = "1" -> <<100>>
                           [] resp.value = "0.85" -> <<85>>
                           [] resp.value = "-0.5" -> <<-50>>)
           ELSE /\ ~resp.success /\ resp.error_code = "405"
                /\ ScoreField(attempts[resp.target], resp.element)
                      = ScoreField(prev[resp.target], resp.element)

(* C25: a successful Initialize either adds one row and leaves every existing *)
(* row as it was, or adds none and changes one row, the one whose id it       *)
(* returns, in entry (to "resume") and last_accessed_at only; rows of other   *)
(* learners and other SCOs are among those left as they were.                 *)
C25_InitializeTouchesOneAttempt ==
    (resp.op = "initialize" /\ resp.success) =>
        /\ resp.attempt_id \in AttemptIds
        /\ attempts[resp.attempt_id].user_id = resp.user
        /\ attempts[resp.attempt_id].sco_id = resp.target
        /\ \A a \in PrevIds : a # resp.attempt_id => attempts[a] = prev[a]
        /\ IF resp.attempt_id \in PrevIds
           THEN /\ Len(attempts) = Len(prev)
                /\ attempts[resp.attempt_id] =
                      [prev[resp.attempt_id] EXCEPT
                          !.entry = "resume",
                          !.last_accessed_at = attempts[resp.attempt_id].last_accessed_at]
           ELSE /\ Len(attempts) = Len(prev) + 1
                /\ resp.attempt_id = Len(attempts)

(* a resume of an attempt that a Finish had moved to "incomplete", with an    *)
(* attempt of another learner on the same SCO in the table                    *)
C25_Witness ==
    /\ resp.op = "initialize"
    /\ resp.success
    /\ resp.attempt_id \in PrevIds
    /\ prev[resp.attempt_id].completion_status = "incomplete"
    /\ attempts[resp.attempt_id].completion_status = "incomplete"
    /\ attempts[resp.attempt_id].entry = "resume"
    /\ \E c \in AttemptIds : attempts[c].sco_id = resp.target /\ attempts[c].user_id # resp.user

(* C27: a SetValue answered success=false leaves every stored row as it was,  *)
(* and the attempt object, if one was loaded, equal to the stored row in      *)
(* every column, last_accessed_at included.                                   *)
C27_FailedSetValueChangesNothing ==
    (resp.op = "set-value" /\ ~resp.success) =>
        /\ attempts = prev
        /\ \A i \in 1 .. Len(obj) : obj[i] = prev[resp.target]

(* a non-numeric progress measure refused with "405" *)
C27_Witness ==
    /\ OwnSetValue
    /\ resp.element = "cmi.progress_measure"
    /\ resp.value = "abc"
    /\ resp.error_code = "405"
    /\ obj # <<>>
    /\ obj[1] = prev[resp.target]

(* a row or object marked completed carries a completion time *)
CompletedHasTime(o) == o.completion_status = "completed" => o.completed_at # 0

(* C28: every stored attempt, and the attempt object a handler leaves behind, *)
(* that has completion_status "completed" has a non-null completed_at.        *)
C28_CompletedHasCompletedAt ==
    /\ \A a \in AttemptIds : CompletedHasTime(attempts[a])
    /\ \A i \in 1 .. Len(obj) : CompletedHasTime(obj[i])

(* the owner has just set the attempt to "completed" *)
C28_Witness ==
    /\ OwnSetValue
    /\ resp.element = "cmi.completion_status"
    /\ resp.value = "completed"
    /\ obj # <<>>
    /\ obj[1].completion_status = "completed"
    /\ obj[1].completed_at # 0

(* C29: when a successful Finish is followed, with no Initialize in between,  *)
(* by a GetValue, SetValue, Commit or Finish of the same learner on the same  *)
(* attempt (whose database commit does not raise), that call succeeds with    *)
(* error_code "0", and a SetValue of cmi.location changes the attempt's       *)
(* location to the value.                                                     *)
C29_FinishedAttemptStaysUsable ==
    [][(/\ resp.op = "finish"
        /\ resp.success
        /\ resp'.op \in {"get-value", "set-value", "commit", "finish"}
        /\ resp'.user = resp.user
        /\ resp'.target = resp.target
        /\ resp'.error_code # "391"
        /\ resp'.op = "set-value" => resp'.element = "cmi.location") =>
           /\ resp'.success
           /\ resp'.error_code = "0"
           /\ resp'.op = "set-value" => attempts'[resp.target].location = resp'.value]_vars

ObserverView(rows) == SelectSeq(rows, OwnedByObserver)

(* which of the observer's attempts, counted in id order, row id is (0 for    *)
(* the id 0 of an answer that names no attempt)                               *)
Ordinal(rows, id) ==
    Cardinality({b \in 1 .. Len(rows) : b <= id /\ OwnedByObserver(rows[b])})

(* both databases have served the same requests *)
PairInStep == twin.side = "with" /\ twin.pending = <<>>

(* what the two databases must agree on apart from the returned attempt id *)
PairAgrees ==
    /\ ObserverView(attempts) = ObserverView(twin.attempts)
    /\ resp.op = twin.resp.op
    /\ resp.http = twin.resp.http
    /\ resp.success = twin.resp.success
    /\ resp.error_code = twin.resp.error_code
    /\ resp.out = twin.resp.out
    /\ resp.launch_data = twin.resp.launch_data
    /\ resp.mastery_score = twin.resp.mastery_score
    /\ Ordinal(attempts, resp.attempt_id) = Ordinal(twin.attempts, twin.resp.attempt_id)

(* a request of the observer leaves the rows of other learners as they were *)
OthersUntouched ==
    (twin.side = "with" /\ twin.pending # <<>>) =>
        /\ Len(attempts) >= Len(prev)
        /\ \A a \in PrevIds : ~OwnedByObserver(prev[a]) => attempts[a] = prev[a]

====
